---- MODULE Spec2Model ----
(***************************************************************************)
(* Model of the persistence and validation core of youtube-automator:      *)
(*   src/src/busca_noticias.py  agrupar_noticias_por_data, salvar_noticias *)
(*   src/src/valida_json.py     tentar_corrigir_json,                      *)
(*                              validar_estrutura_dados, processar_arquivo,*)
(*                              percorrer_jsons                            *)
(*                                                                         *)
(* Representation.                                                         *)
(*  - A Python str, and the text of a file, is a sequence of characters.   *)
(*    A character is a one-element TLA+ string; a run of letters that no   *)
(*    operation of the program looks into (a key name, a date, an id) is   *)
(*    kept as one element.  The characters the program does look at are    *)
(*    separate elements: the JSON punctuation, the quote, the blank (which *)
(*    stands for any white space, a line break with its indentation        *)
(*    included), the letters "a", "A", "b" of titles.  Strings hold no     *)
(*    quote and no backslash, so that json needs no escape.                *)
(*  - A JSON value is a tagged record: Str, Num, Nulo, Lista, Dict.  A     *)
(*    dict keeps its insertion order, as Python's does: it is a sequence   *)
(*    of <<key, value>> pairs with pairwise different keys.                *)
(***************************************************************************)
EXTENDS Integers, Sequences, FiniteSets, TLC

-----------------------------------------------------------------------------
(* Python values *)

Str(s) == [t |-> "str", s |-> s]
Num(n) == [t |-> "num", n |-> n]
Nulo == [t |-> "null"]
Lista(e) == [t |-> "list", e |-> e]
Dict(m) == [t |-> "dict", m |-> m]

\* isinstance(v, list), isinstance(v, dict), isinstance(v, str)
EhLista(v) == v.t = "list"
EhDict(v) == v.t = "dict"
EhStr(v) == v.t = "str"

\* k in d
Contem(d, k) == \E i \in DOMAIN d.m : d.m[i][1] = k

\* d[k], for k in d
Valor(d, k) == d.m[CHOOSE i \in DOMAIN d.m : d.m[i][1] = k][2]

\* d.get(k, padrao)
Get(d, k, padrao) == IF Contem(d, k) THEN Valor(d, k) ELSE padrao

\* d[k] = v: a key already present keeps its place, a new one goes last
Atribuir(d, k, v) ==
    IF Contem(d, k)
    THEN Dict([i \in DOMAIN d.m |-> IF d.m[i][1] = k THEN <<k, v>> ELSE d.m[i]])
    ELSE Dict(Append(d.m, <<k, v>>))

\* the elements of a list
Range(l) == {l[i] : i \in DOMAIN l}

\* the characters str.strip() removes, here the blank
Brancos == {" "}

\* str.lower() of one character; "A" is the upper-case letter of the alphabet
LowerChar(c) == IF c = "A" THEN "a" ELSE c

\* str.lower()
Lower(s) == [i \in DOMAIN s |-> LowerChar(s[i])]

RECURSIVE LStrip(_)
LStrip(s) == IF s # <<>> /\ Head(s) \in Brancos THEN LStrip(Tail(s)) ELSE s

RECURSIVE RStrip(_)
RStrip(s) ==
    IF s # <<>> /\ s[Len(s)] \in Brancos THEN RStrip(SubSeq(s, 1, Len(s) - 1)) ELSE s

\* str.strip()
Strip(s) == RStrip(LStrip(s))

-----------------------------------------------------------------------------
(* json.loads: a recursive-descent reading of the text.  Every reader      *)
(* returns [ok, v, p]: whether it read a value, the value, and the         *)
(* position after it.  ok = FALSE is json.JSONDecodeError.                 *)

Digitos == {"1", "5"}

Falha == [ok |-> FALSE, v |-> Nulo, p |-> 0]
Lido(v, p) == [ok |-> TRUE, v |-> v, p |-> p]

RECURSIVE SkipWs(_, _)
SkipWs(txt, i) ==
    IF i <= Len(txt) /\ txt[i] \in Brancos THEN SkipWs(txt, i + 1) ELSE i

\* the position of the quote that closes a string whose content starts at i
RECURSIVE FimString(_, _)
FimString(txt, i) ==
    IF i > Len(txt) THEN 0
    ELSE IF txt[i] = "\"" THEN i
    ELSE FimString(txt, i + 1)

\* txt[i] is the opening quote
ParseString(txt, i) ==
    LET f == FimString(txt, i + 1)
    IN  IF f = 0 THEN Falha ELSE Lido(Str(SubSeq(txt, i + 1, f - 1)), f + 1)

RECURSIVE ParseValue(_, _)
RECURSIVE ParseItens(_, _, _)
RECURSIVE ParseMembros(_, _, _)

ParseValue(txt, i0) ==
    LET i == SkipWs(txt, i0)
    IN  IF i > Len(txt) THEN Falha
        ELSE CASE txt[i] = "[" ->
                    LET j == SkipWs(txt, i + 1)
                    IN  IF j <= Len(txt) /\ txt[j] = "]"
                        THEN Lido(Lista(<<>>), j + 1)
                        ELSE ParseItens(txt, j, <<>>)
               [] txt[i] = "{" ->
                    LET j == SkipWs(txt, i + 1)
                    IN  IF j <= Len(txt) /\ txt[j] = "}"
                        THEN Lido(Dict(<<>>), j + 1)
                        ELSE ParseMembros(txt, j, Dict(<<>>))
               [] txt[i] = "\"" -> ParseString(txt, i)
               [] txt[i] \in Digitos -> Lido(Num(txt[i]), i + 1)
               [] txt[i] = "null" -> Lido(Nulo, i + 1)
               [] OTHER -> Falha

\* the elements of an array from position i on, acc being those read so far
ParseItens(txt, i, acc) ==
    LET r == ParseValue(txt, i)
    IN  IF ~r.ok THEN Falha
        ELSE LET j == SkipWs(txt, r.p)
             IN  IF j > Len(txt) THEN Falha
                 ELSE IF txt[j] = "," THEN ParseItens(txt, j + 1, Append(acc, r.v))
                 ELSE IF txt[j] = "]" THEN Lido(Lista(Append(acc, r.v)), j + 1)
                 ELSE Falha

\* the members of an object from position i on, d being the dict read so far;
\* a repeated key keeps its first place and takes the last value
ParseMembros(txt, i, d) ==
    LET j == SkipWs(txt, i)
    IN  IF j > Len(txt) \/ txt[j] # "\"" THEN Falha
        ELSE LET k == ParseString(txt, j)
                 c == SkipWs(txt, k.p)
             IN  IF ~k.ok \/ c > Len(txt) \/ txt[c] # ":" THEN Falha
                 ELSE LET r == ParseValue(txt, c + 1)
                          e == SkipWs(txt, r.p)
                      IN  IF ~r.ok \/ e > Len(txt) THEN Falha
                          ELSE IF txt[e] = ","
                               THEN ParseMembros(txt, e + 1, Atribuir(d, k.v.s, r.v))
                          ELSE IF txt[e] = "}"
                               THEN Lido(Atribuir(d, k.v.s, r.v), e + 1)
                          ELSE Falha

\* r is what was read from the start of txt: one value, then nothing but white
\* space
SoUmValor(txt, r) ==
    IF r.ok /\ SkipWs(txt, r.p) = Len(txt) + 1 THEN r ELSE Falha

\* json.loads(txt)
JsonLoads(txt) == SoUmValor(txt, ParseValue(txt, 1))

-----------------------------------------------------------------------------
(* json.dumps(v, ensure_ascii=False, indent=4): every line break with its  *)
(* indentation is one blank; an empty list or dict has none.               *)

RECURSIVE JsonDumps(_)
RECURSIVE DumpItens(_, _)
RECURSIVE DumpMembros(_, _)

JsonDumps(v) ==
    CASE v.t = "str" -> <<"\"">> \o v.s \o <<"\"">>
      [] v.t = "num" -> <<v.n>>
      [] v.t = "null" -> <<"null">>
      [] v.t = "list" ->
            IF v.e = <<>> THEN <<"[", "]">>
            ELSE <<"[", " ">> \o DumpItens(v.e, 1) \o <<" ", "]">>
      [] v.t = "dict" ->
            IF v.m = <<>> THEN <<"{", "}">>
            ELSE <<"{", " ">> \o DumpMembros(v.m, 1) \o <<" ", "}">>

DumpItens(e, i) ==
    JsonDumps(e[i]) \o (IF i = Len(e) THEN <<>> ELSE <<",", " ">> \o DumpItens(e, i + 1))

DumpMembros(m, i) ==
    <<"\"">> \o m[i][1] \o <<"\"", ":", " ">> \o JsonDumps(m[i][2])
      \o (IF i = Len(m) THEN <<>> ELSE <<",", " ">> \o DumpMembros(m, i + 1))

-----------------------------------------------------------------------------
(* valida_json.py: the repair of the text *)

\* the position after the white space that starts at i (the regular
\* expression's \s*, which takes all of it: what follows must not be white space)
RECURSIVE AposBrancos(_, _)
AposBrancos(txt, i) ==
    IF i <= Len(txt) /\ txt[i] \in Brancos THEN AposBrancos(txt, i + 1) ELSE i

\* whether the pattern ,\s*([}\]]) matches at position i
CasaVirgula(txt, i) ==
    /\ i <= Len(txt)
    /\ txt[i] = ","
    /\ LET j == AposBrancos(txt, i + 1)
       IN  j <= Len(txt) /\ txt[j] \in {"}", "]"}

\* the parts of a sequence of texts from the lo-th to the hi-th, joined
RECURSIVE Juntar(_, _, _)
Juntar(partes, lo, hi) ==
    IF lo > hi THEN <<>>
    ELSE IF lo = hi THEN partes[lo]
    ELSE Juntar(partes, lo, (lo + hi) \div 2) \o Juntar(partes, (lo + hi) \div 2 + 1, hi)

\* whether position k is white space between a comma that matches and its
\* closing bracket
BrancoDeVirgula(txt, k) ==
    /\ txt[k] \in Brancos
    /\ \E i \in 1..(k - 1) :
          /\ CasaVirgula(txt, i)
          /\ \A m \in (i + 1)..k : txt[m] \in Brancos

\* re.sub(r",\s*([}\]])", r"\1", conteudo): the matches are taken from left to
\* right and do not overlap; as a match holds one comma, its first character,
\* every position where the pattern matches starts one, and what goes is the
\* comma and the white space after it
SubVirgulas(txt) ==
    Juntar([k \in DOMAIN txt |->
               IF CasaVirgula(txt, k) \/ BrancoDeVirgula(txt, k) THEN <<>> ELSE <<txt[k]>>],
           1, Len(txt))

\* a repair that takes away only the commas that touch the closing bracket
CorrigirSoColadas(conteudo) ==
    Juntar([k \in DOMAIN conteudo |->
               IF conteudo[k] = "," /\ k < Len(conteudo) /\ conteudo[k + 1] \in {"}", "]"}
               THEN <<>> ELSE <<conteudo[k]>>],
           1, Len(conteudo))

\* lines 35-47
tentar_corrigir_json(conteudo) == SubVirgulas(conteudo)

-----------------------------------------------------------------------------
(* The records and the files *)

K_id == <<"id">>
K_titulo == <<"titulo">>
K_conteudo == <<"conteudo">>
K_fonte == <<"fonte">>
K_data == <<"data">>
K_url == <<"url">>

CHAVES_OBRIGATORIAS == <<K_id, K_titulo, K_conteudo, K_fonte, K_data, K_url>>

\* the dict coletar_noticias builds for one feed entry
Noticia(id, titulo, conteudo, fonte, data) ==
    Dict(<< <<K_id, Str(<<id>>)>>, <<K_titulo, Str(titulo)>>,
            <<K_conteudo, Str(<<conteudo>>)>>, <<K_fonte, Str(fonte)>>,
            <<K_data, Str(<<data>>)>>, <<K_url, Str(<<"http://n">>)>> >>)

\* a byte that is not UTF-8: reading a file that holds one raises
\* UnicodeDecodeError
ByteInvalido == "<0xff>"

\* a file of the directory: absent, or present with its text
Ausente == [existe |-> FALSE, txt |-> <<>>]
Arquivo(txt) == [existe |-> TRUE, txt |-> txt]

\* whether open(nome, "r", encoding="utf-8").read() returns
Legivel(txt) == \A i \in DOMAIN txt : txt[i] # ByteInvalido

\* os.path.join(diretorio_saida, f"{data}.json"), data being a str
NomeArquivo(data) == data.s \o <<".json">>

-----------------------------------------------------------------------------
(* busca_noticias.py: agrupar_noticias_por_data *)

\* a search that takes the first group for the group of every date
PosicaoPrimeira(agrupadas, data) == IF agrupadas = <<>> THEN 0 ELSE 1

\* agrupadas is a dict from data to the list of its records, in insertion
\* order: a sequence of [data, noticias]
PosicaoData(agrupadas, data) ==
    IF \E i \in DOMAIN agrupadas : agrupadas[i].data = data
    THEN CHOOSE i \in DOMAIN agrupadas : agrupadas[i].data = data
    ELSE 0

RECURSIVE AgruparDe(_, _, _)
AgruparDe(noticias, i, agrupadas) ==
    IF i > Len(noticias) THEN agrupadas
    ELSE LET noticia == noticias[i]
             data == Get(noticia, K_data, Nulo)
             p == PosicaoData(agrupadas, data)
         IN  IF p = 0
             THEN AgruparDe(noticias, i + 1,
                            Append(agrupadas, [data |-> data, noticias |-> <<noticia>>]))
             ELSE AgruparDe(noticias, i + 1,
                            [agrupadas EXCEPT ![p].noticias = Append(@, noticia)])

agrupar_noticias_por_data(noticias) == AgruparDe(noticias, 1, <<>>)

-----------------------------------------------------------------------------
(* busca_noticias.py: salvar_noticias *)

\* a reading that takes a value that is no list for a list of one element
ListaOuUnico(r) ==
    IF ~r.ok THEN <<>> ELSE IF EhLista(r.v) THEN r.v.e ELSE <<r.v>>

\* lines 167-170: r is what json.load gave
ListaLida(r) == IF r.ok /\ EhLista(r.v) THEN r.v.e ELSE <<>>

\* lines 163-175: the list the existing file holds; a file that is absent, that
\* cannot be read or parsed, or that holds no list, gives the empty list
NoticiasExistentes(c) ==
    IF ~c.existe \/ ~Legivel(c.txt) THEN <<>> ELSE ListaLida(JsonLoads(c.txt))

SemChave == [ok |-> FALSE, k |-> <<>>]

\* a key that takes titulo and fonte as they are written
ChaveSemNormalizar(n) ==
    IF ~EhDict(n) THEN SemChave
    ELSE LET titulo == Get(n, K_titulo, Str(<<>>))
             fonte == Get(n, K_fonte, Str(<<>>))
             data_noticia == Get(n, K_data, Str(<<>>))
         IN  IF ~EhStr(titulo) \/ ~EhStr(fonte) \/ data_noticia.t \in {"list", "dict"}
             THEN SemChave
             ELSE [ok |-> TRUE, k |-> <<titulo.s, fonte.s, data_noticia>>]

\* lines 180-183 and 189-192: the natural key of one record.  ok = FALSE is the
\* exception the code raises and does not catch: AttributeError when n has no
\* get (n is no dict) or when titulo or fonte has no strip (is no str),
\* TypeError when data cannot be hashed (is a list or a dict)
ChaveNatural(n) ==
    IF ~EhDict(n) THEN SemChave
    ELSE LET titulo == Get(n, K_titulo, Str(<<>>))
             fonte == Get(n, K_fonte, Str(<<>>))
             data_noticia == Get(n, K_data, Str(<<>>))
         IN  IF ~EhStr(titulo) \/ ~EhStr(fonte) \/ data_noticia.t \in {"list", "dict"}
             THEN SemChave
             ELSE [ok |-> TRUE,
                   k |-> <<Lower(Strip(titulo.s)), Strip(fonte.s), data_noticia>>]

\* a set of existing keys that forgets what the file holds
SemChavesExistentes(noticias_existentes) == {}

\* lines 178-183: the keys of the records the file holds
ChavesExistentes(noticias_existentes) ==
    {ChaveNatural(noticias_existentes[i]).k : i \in DOMAIN noticias_existentes}

\* lines 186-196: the new records whose key is neither on disk nor admitted
\* earlier in the same batch
RECURSIVE NovasSemDuplicatas(_, _, _, _)
NovasSemDuplicatas(noticias, i, existentes_keys, novas_keys) ==
    IF i > Len(noticias) THEN <<>>
    ELSE LET key == ChaveNatural(noticias[i]).k
         IN  IF key \notin existentes_keys /\ key \notin novas_keys
             THEN <<noticias[i]>>
                    \o NovasSemDuplicatas(noticias, i + 1, existentes_keys,
                                          novas_keys \cup {key})
             ELSE NovasSemDuplicatas(noticias, i + 1, existentes_keys, novas_keys)

\* how the write of lines 201-205 ends: "ok"; "open", open() raises and the file
\* is as it was; "dump", open() has truncated the file and the writing raises,
\* which leaves a proper prefix of the text, here the empty one (no proper
\* prefix of a dumped list can be parsed, whatever its length)
Escrever(anterior, texto, escrita) ==
    CASE escrita = "ok" -> Arquivo(texto)
      [] escrita = "open" -> anterior
      [] escrita = "dump" -> Arquivo(<<>>)

\* line 199
Combinadas(noticias_existentes, novas_sem_duplicatas) ==
    noticias_existentes \o novas_sem_duplicatas

\* a merge in which a record of the batch replaces the record of its key that
\* the file holds
CombinarUltimoVence(anterior, noticias_existentes, noticias, escrita) ==
    IF \E n \in Range(noticias_existentes \o noticias) : ~ChaveNatural(n).ok
    THEN [levanta |-> TRUE, arquivo |-> anterior]
    ELSE LET chaves_novas == ChavesExistentes(noticias)
             Fica(n) == ChaveNatural(n).k \notin chaves_novas
         IN  [levanta |-> FALSE,
              arquivo |-> Escrever(anterior,
                                   JsonDumps(Lista(SelectSeq(noticias_existentes, Fica)
                                        \o NovasSemDuplicatas(noticias, 1, {}, {}))),
                                   escrita)]

\* lines 177-205, noticias_existentes being the list read: [levanta, arquivo].
\* levanta = TRUE is an exception that leaves salvar_noticias: the key of an
\* existing record (line 180) or of a new one (line 189) cannot be computed
Combinar(anterior, noticias_existentes, noticias, escrita) ==
    IF \E n \in Range(noticias_existentes \o noticias) : ~ChaveNatural(n).ok
    THEN [levanta |-> TRUE, arquivo |-> anterior]
    ELSE LET existentes_keys == ChavesExistentes(noticias_existentes)
             novas_sem_duplicatas == NovasSemDuplicatas(noticias, 1, existentes_keys, {})
             noticias_combinadas == Combinadas(noticias_existentes, novas_sem_duplicatas)
         IN  [levanta |-> FALSE,
              arquivo |-> Escrever(anterior, JsonDumps(Lista(noticias_combinadas)), escrita)]

\* lines 161-205, one turn of the loop
SalvarParticao(anterior, noticias, escrita) ==
    Combinar(anterior, NoticiasExistentes(anterior), noticias, escrita)

\* the loop's state after a turn that gave r for the file nome_arquivo: s is
\* [arqs, levanta, tratadas], the files, whether an exception left the
\* function, and the partition files whose turn ran to its end
AposParticao(s, nome_arquivo, r) ==
    IF r.levanta THEN [s EXCEPT !.levanta = TRUE]
    ELSE [arqs |-> [s.arqs EXCEPT ![nome_arquivo] = r.arquivo],
          levanta |-> FALSE,
          tratadas |-> Append(s.tratadas, nome_arquivo)]

\* lines 160-205, the loop from partition i on
RECURSIVE SalvarDe(_, _, _, _)
SalvarDe(agrupadas, i, s, escritas) ==
    IF i > Len(agrupadas) \/ s.levanta THEN s
    ELSE SalvarDe(agrupadas, i + 1,
                  AposParticao(s, NomeArquivo(agrupadas[i].data),
                               SalvarParticao(s.arqs[NomeArquivo(agrupadas[i].data)],
                                              agrupadas[i].noticias,
                                              escritas[NomeArquivo(agrupadas[i].data)])),
                  escritas)

salvar_noticias(agrupadas, arqs, escritas) ==
    SalvarDe(agrupadas, 1, [arqs |-> arqs, levanta |-> FALSE, tratadas |-> <<>>], escritas)

-----------------------------------------------------------------------------
(* valida_json.py: validar_estrutura_dados, processar_arquivo, percorrer_jsons *)

\* str(uuid.uuid4()), the n-th one of the execution: each differs from every
\* other and from every id a file holds
UUIDS == <<"uuid-1", "uuid-2", "uuid-3", "uuid-4", "uuid-5", "uuid-6">>
\* an identifier that is the empty string
UuidVazio(n) == Str(<<>>)
Uuid4(n) == Str(<<UUIDS[n]>>)

\* one line log_erro appends to LOG_FILE: the file, what happened, and for a
\* line about one element its position (from 0, as enumerate counts) and key
Linha(arquivo, evento, posicao, chave) ==
    [arquivo |-> arquivo, evento |-> evento, posicao |-> posicao, chave |-> chave]
LinhaArquivo(arquivo, evento) == Linha(arquivo, evento, -1, <<>>)

\* r with the lines `antes` logged before its own
ComLog(antes, r) == [r EXCEPT !.log = antes \o @]

\* lines 64-71 from the c-th required key on: [item, log, u], the item, the
\* lines logged and the number of uuids drawn so far
RECURSIVE ValidarChaves(_, _, _, _, _)
ValidarChaves(item, c, arquivo, i, u) ==
    IF c > Len(CHAVES_OBRIGATORIAS) THEN [item |-> item, log |-> <<>>, u |-> u]
    ELSE IF Contem(item, CHAVES_OBRIGATORIAS[c])
         THEN ValidarChaves(item, c + 1, arquivo, i, u)
    ELSE IF CHAVES_OBRIGATORIAS[c] = K_id
         THEN ComLog(<<Linha(arquivo, "uuid", i, K_id)>>,
                     ValidarChaves(Atribuir(item, K_id, Uuid4(u + 1)),
                                   c + 1, arquivo, i, u + 1))
    ELSE ComLog(<<Linha(arquivo, "padrao", i, CHAVES_OBRIGATORIAS[c])>>,
                ValidarChaves(Atribuir(item, CHAVES_OBRIGATORIAS[c], Str(<<>>)),
                              c + 1, arquivo, i, u))

\* a list that does not take an item it already holds
ItemSemRepetir(v, r) ==
    [dados |-> IF v.item \in Range(r.dados) THEN r.dados ELSE <<v.item>> \o r.dados,
     log |-> v.log \o r.log, u |-> r.u]

\* a list that takes every item twice
ItemDuasVezes(v, r) ==
    [dados |-> <<v.item, v.item>> \o r.dados, log |-> v.log \o r.log, u |-> r.u]

\* line 72: the item v, corrected, goes before the items r that follow it
ItemValidado(v, r) ==
    [dados |-> <<v.item>> \o r.dados, log |-> v.log \o r.log, u |-> r.u]

\* lines 58-73 from position i (from 0) on, dados being a list: [dados, log, u]
RECURSIVE ValidarDe(_, _, _, _)
RECURSIVE ValidarApos(_, _, _, _)
ValidarDe(dados, i, arquivo, u) ==
    IF i >= Len(dados) THEN [dados |-> <<>>, log |-> <<>>, u |-> u]
    ELSE IF ~EhDict(dados[i + 1])
         THEN ComLog(<<Linha(arquivo, "nao_objeto", i, <<>>)>>,
                     ValidarDe(dados, i + 1, arquivo, u))
    ELSE ValidarApos(dados, i, arquivo, ValidarChaves(dados[i + 1], 1, arquivo, i, u))

\* the items after position i, v being what lines 64-71 gave for that one
ValidarApos(dados, i, arquivo, v) ==
    ItemValidado(v, ValidarDe(dados, i + 1, arquivo, v.u))

\* lines 49-73: [levanta, dados, log, u]; levanta = TRUE is the ValueError of
\* line 56
validar_estrutura_dados(dados, arquivo, u) ==
    IF ~EhLista(dados)
    THEN [levanta |-> TRUE, dados |-> <<>>, log |-> <<>>, u |-> u]
    ELSE [levanta |-> FALSE] @@ ValidarDe(dados.e, 0, arquivo, u)

\* lines 87-92, the strict reading having failed: r2 is the reading of the
\* corrected text
Retentativa(arquivo, r2) ==
    IF r2.ok
    THEN [ok |-> TRUE, v |-> r2.v,
          log |-> <<LinhaArquivo(arquivo, "decode"), LinhaArquivo(arquivo, "corrigido")>>]
    ELSE [ok |-> FALSE, v |-> Nulo, log |-> <<LinhaArquivo(arquivo, "decode")>>]

\* lines 83-92, r being the strict reading: [ok, v, log]; ok = FALSE is the
\* ValueError of line 92
Carregado(conteudo, arquivo, r) ==
    IF r.ok THEN [ok |-> TRUE, v |-> r.v, log |-> <<>>]
    ELSE Retentativa(arquivo, JsonLoads(tentar_corrigir_json(conteudo)))

CarregarOuCorrigir(conteudo, arquivo) == Carregado(conteudo, arquivo, JsonLoads(conteudo))

\* the end of processar_arquivo with an exception: line 100, the file is as
\* it was
Falhou(arquivo_json, c, log_antes, u) ==
    [arquivo |-> c, log |-> log_antes \o <<LinhaArquivo(arquivo_json, "falha")>>, u |-> u]

\* a validation that writes an empty list
RegravadoVazio(arquivo_json, c, log_antes, u, d) ==
    IF d.levanta THEN Falhou(arquivo_json, c, log_antes, u)
    ELSE [arquivo |-> Arquivo(JsonDumps(Lista(<<>>))), log |-> log_antes \o d.log, u |-> d.u]

\* lines 94-97, d being what validar_estrutura_dados gave
Regravado(arquivo_json, c, log_antes, u, d) ==
    IF d.levanta THEN Falhou(arquivo_json, c, log_antes, u)
    ELSE [arquivo |-> Arquivo(JsonDumps(Lista(d.dados))), log |-> log_antes \o d.log, u |-> d.u]

\* lines 94-100, r being what lines 83-92 gave
Validado(arquivo_json, c, u, r) ==
    IF ~r.ok THEN Falhou(arquivo_json, c, r.log, u)
    ELSE Regravado(arquivo_json, c, r.log, u, validar_estrutura_dados(r.v, arquivo_json, u))

\* lines 75-100: [arquivo, log, u], the file after, the lines logged, the uuids
\* drawn.  An exception of the reading, the loading or the validation ends at
\* line 100 before the file is opened for writing; the write of lines 96-97
\* succeeds
processar_arquivo(arquivo_json, c, u) ==
    IF ~Legivel(c.txt) THEN Falhou(arquivo_json, c, <<>>, u)
    ELSE Validado(arquivo_json, c, u, CarregarOuCorrigir(c.txt, arquivo_json))

\* f.lower().endswith('.json'), the extension being the last element of a name
EhJson(nome) == nome # <<>> /\ Lower(nome)[Len(nome)] = ".json"

\* lines 116-119 from the i-th file of the listing on: [arqs, log, u]
RECURSIVE PercorrerDe(_, _, _, _)
RECURSIVE PercorrerApos(_, _, _, _)
PercorrerDe(lista, i, arqs, u) ==
    IF i > Len(lista) THEN [arqs |-> arqs, log |-> <<>>, u |-> u]
    ELSE PercorrerApos(lista, i, arqs, processar_arquivo(lista[i], arqs[lista[i]], u))

\* a walk that stops at the first file that fails
PercorrerAteFalhar(lista, i, arqs, p) ==
    IF \E j \in DOMAIN p.log : p.log[j].evento = "falha"
    THEN [arqs |-> [arqs EXCEPT ![lista[i]] = p.arquivo], log |-> p.log, u |-> p.u]
    ELSE ComLog(p.log, PercorrerDe(lista, i + 1, [arqs EXCEPT ![lista[i]] = p.arquivo], p.u))

\* the files after the i-th, p being what processar_arquivo gave for that one
PercorrerApos(lista, i, arqs, p) ==
    ComLog(p.log, PercorrerDe(lista, i + 1, [arqs EXCEPT ![lista[i]] = p.arquivo], p.u))

\* lines 110-119: lista is os.listdir(diretorio), in the order the system gives
percorrer_jsons(lista, arqs, u) ==
    PercorrerDe(SelectSeq(lista, EhJson), 1, arqs, u)

-----------------------------------------------------------------------------
(* The state *)

VARIABLES
    arquivos,   \* the storage directory: the file of each name
    antes,      \* the directory as the last execution found it
    op,         \* the last execution: "inicio", "salvar" or "validar"
    lote,       \* the records given to the last salvar_noticias, in arrival order
    escritas,   \* how the write of each file ended in the last salvar_noticias
    levantou,   \* whether an exception left the last execution
    tratadas,   \* the partition files the last salvar_noticias handled to the end
    log,        \* the lines the last execution appended to LOG_FILE
    uuids,      \* the number of uuids drawn so far
    agrupadas,  \* what agrupar_noticias_por_data gave in the last collection
    cli,        \* the last run of valida_json.py as a script: its argument, the
                \* directories that exist, the directory walked, the exit status
    coleta,     \* rss_feeds.json and the last etapa_coleta: what the network
                \* answered, the urls given to feedparser.parse in their order,
                \* whether the error of carregar_feeds was printed
    procs,      \* two invocations of salvar_noticias that run at the same time:
                \* where each is, its batch, the list it read, what it admitted
    sombra      \* the directory as the collections alone would have left it,
                \* and the operation before the last one

vars == <<arquivos, antes, op, lote, escritas, levantou, tratadas, log, uuids,
          agrupadas, cli, coleta, procs, sombra>>

\* the directories: DIR_NEWS, which main computes from the place of the script,
\* and another one; no directory was walked; no argument was given
DIR_NEWS == "news"
OutroDiretorio == "outro"
Nenhum == ""

\* valida_json.py was not run as a script: DIR_NEWS exists
SemCli == [argv |-> Nenhum, existem |-> {DIR_NEWS}, percorrido |-> Nenhum, status |-> 0]

\* no invocations run at the same time
SemProcs == [pc |-> <<>>, noticias |-> <<>>, lidas |-> <<>>, admitidas |-> <<>>,
             sobrepostas |-> FALSE]

\* the runs of the collection alone are not followed
SemSombra == [arqs |-> <<>>, anterior |-> "inicio"]

\* etapa_coleta was not run from rss_feeds.json
SemColeta == [arquivo |-> [existe |-> FALSE, txt |-> <<>>], rede |-> <<>>,
              buscados |-> <<>>, erro |-> FALSE]

\* the size of a batch, and of a list an externally supplied file holds
MaxLote == 2
MaxItens == 2

D1 == "2024-03-01"
D2 == "2024-03-02"
F1 == <<D1, ".json">>
F2 == <<D2, ".json">>
F3 == <<"notas", ".txt">>
Nomes == {F1, F2, F3}

\* the sequences over S of length lo to hi
SeqAte(S, lo, hi) == UNION {[1..n -> S] : n \in lo..hi}

\* the records of the feeds: NA1 and NA2 are one news item (their titulo differs
\* in case and white space, their fonte in white space) with different id and
\* conteudo; NB is another item of the same date; NC is of the next date
NA1 == Noticia("id-1", <<"a">>, "c1", <<"x">>, D1)
NA2 == Noticia("id-2", <<" ", "A">>, "c2", <<"x", " ">>, D1)
NB == Noticia("id-3", <<"b">>, "c1", <<"x">>, D1)
NC == Noticia("id-4", <<"a">>, "c1", <<"x">>, D2)
Noticias == {NA1, NA2, NB, NC}
\* batches in which the records of one date are apart
LotesMistos == {<<NA1, NC, NB>>, <<NC, NA1, NA2>>}
Lotes == SeqAte(Noticias, 1, MaxLote) \cup LotesMistos

\* the text of a value as another program writes it: without white space
RECURSIVE Compacto(_)
RECURSIVE CompactoItens(_, _)
RECURSIVE CompactoMembros(_, _)
Compacto(v) ==
    CASE v.t = "list" -> <<"[">> \o CompactoItens(v.e, 1) \o <<"]">>
      [] v.t = "dict" -> <<"{">> \o CompactoMembros(v.m, 1) \o <<"}">>
      [] OTHER -> JsonDumps(v)
CompactoItens(e, i) ==
    IF i > Len(e) THEN <<>>
    ELSE Compacto(e[i]) \o (IF i = Len(e) THEN <<>> ELSE <<",">> \o CompactoItens(e, i + 1))
CompactoMembros(m, i) ==
    IF i > Len(m) THEN <<>>
    ELSE <<"\"">> \o m[i][1] \o <<"\"", ":">> \o Compacto(m[i][2])
           \o (IF i = Len(m) THEN <<>> ELSE <<",">> \o CompactoMembros(m, i + 1))

\* txt with `extra` put before its last character
AntesDoUltimo(txt, extra) ==
    SubSeq(txt, 1, Len(txt) - 1) \o extra \o <<txt[Len(txt)]>>

\* objects an externally supplied file may hold
O_vazio == Dict(<<>>)
O_tc == Dict(<< <<K_titulo, Str(<<"T">>)>>, <<K_conteudo, Str(<<"C">>)>> >>)
O_extra == Dict(<< <<(<<"imagem">>), Str(<<"img">>)>>, <<K_id, Str(<<"id-9">>)>>,
                   <<K_titulo, Nulo>>, <<K_data, Num("5")>> >>)
O_str == Dict(<< <<K_titulo, Str(<<"a", ",", " ", "]">>)>>, <<K_fonte, Str(<<"x", ",", "}">>)>> >>)
\* a record of date D1 that holds a titulo only
O_a == Dict(<< <<K_titulo, Str(<<"A", " ">>)>> >>)

\* what the partition files hold when the collection starts
ExistentesF1 ==
    { Ausente,
      Arquivo(<<"[", "{">>),                               \* cut short: no JSON
      Arquivo(<<ByteInvalido>>),                           \* cannot be read
      Arquivo(Compacto(NB)),                               \* an object, no list
      Arquivo(AntesDoUltimo(Compacto(Lista(<<NB>>)), <<",">>)), \* [NB,]: no JSON
      Arquivo(Compacto(Lista(<<NA2>>))),
      Arquivo(JsonDumps(Lista(<<O_a>>))) }
ExistentesF2 ==
    { Ausente,
      Arquivo(Compacto(Lista(<<NC, Str(<<"garbage">>)>>))), \* an element is no object
      Arquivo(Compacto(Lista(<<O_extra>>))) }               \* a titulo is no str
OutroArquivo == Arquivo(<<"[", ",">>)

Init ==
    /\ \E c1 \in ExistentesF1, c2 \in ExistentesF2 :
          arquivos = [n \in Nomes |-> IF n = F1 THEN c1 ELSE IF n = F2 THEN c2
                                                        ELSE OutroArquivo]
    /\ antes = arquivos
    /\ op = "inicio"
    /\ lote = <<>>
    /\ escritas = [n \in Nomes |-> "ok"]
    /\ levantou = FALSE
    /\ tratadas = <<>>
    /\ log = <<>>
    /\ uuids = 0
    /\ agrupadas = <<>>
    /\ cli = SemCli
    /\ coleta = SemColeta
    /\ procs = SemProcs
    /\ sombra = SemSombra

\* the state after a salvar_noticias that was given todas_noticias, grouped as
\* noticias_agrupadas, and gave r
Gravou(todas_noticias, e, noticias_agrupadas, r) ==
    /\ agrupadas' = noticias_agrupadas
    /\ UNCHANGED <<cli, procs>>
    /\ antes' = arquivos
    /\ arquivos' = r.arqs
    /\ lote' = todas_noticias
    /\ escritas' = e
    /\ levantou' = r.levanta
    /\ tratadas' = r.tratadas
    /\ log' = <<>>
    /\ UNCHANGED uuids

\* lines 233-234 with every write succeeding
GravouAgrupadas(todas_noticias, noticias_agrupadas) ==
    Gravou(todas_noticias, [n \in Nomes |-> "ok"], noticias_agrupadas,
           salvar_noticias(noticias_agrupadas, arquivos, [n \in Nomes |-> "ok"]))
Agrupado(todas_noticias) ==
    GravouAgrupadas(todas_noticias, agrupar_noticias_por_data(todas_noticias))

Salvou(todas_noticias, e, noticias_agrupadas, r) ==
    /\ Gravou(todas_noticias, e, noticias_agrupadas, r)
    /\ op' = "salvar"
    /\ UNCHANGED coleta

\* etapa_coleta, lines 233-234, with the records collected: they are grouped and
\* saved; e tells how the write of each file ends
Agrupou(todas_noticias, e, noticias_agrupadas) ==
    /\ Salvou(todas_noticias, e, noticias_agrupadas,
              salvar_noticias(noticias_agrupadas, arquivos, e))
    /\ UNCHANGED sombra
Salvar(todas_noticias, e) ==
    Agrupou(todas_noticias, e, agrupar_noticias_por_data(todas_noticias))

\* every write succeeds
SemFalhas == [n \in Nomes |-> "ok"]

SalvarNoticias == \E todas_noticias \in Lotes : Salvar(todas_noticias, SemFalhas)

Next == SalvarNoticias

Spec == Init /\ [][Next]_vars

\* the write of at most one file fails
ComFalha == {SemFalhas} \cup
            {[SemFalhas EXCEPT ![n] = f] : n \in {F1, F2}, f \in {"open", "dump"}}

\* the first collection over the directory, whose writes may fail
SalvarNoticiasComFalha ==
    /\ op = "inicio"
    /\ \E todas_noticias \in Lotes, e \in ComFalha : Salvar(todas_noticias, e)

NextFalhas == SalvarNoticiasComFalha

SpecFalhas == Init /\ [][NextFalhas]_vars

-----------------------------------------------------------------------------
(* The validation alone, over externally supplied files *)

\* whether position i of the text is inside a string (the strings hold no
\* quotation mark)
DentroDeString(txt, i) == Cardinality({q \in 1..(i - 1) : txt[q] = "\""}) % 2 = 1

\* txt with a comma put before every closing bracket that is outside a string
ComVirgulas(txt) ==
    Juntar([k \in DOMAIN txt |->
               IF txt[k] \in {"}", "]"} /\ ~DentroDeString(txt, k)
               THEN <<",", txt[k]>> ELSE <<txt[k]>>],
           1, Len(txt))

\* what a list of a supplied file may hold, and what a file may hold that is
\* no list
Elementos == {O_vazio, O_tc, NA1, O_extra, O_str,
              Str(<<"garbage">>), Num("5"), Nulo, Lista(<<>>)}
ListasExternas == {Lista(e) : e \in SeqAte(Elementos, 0, MaxItens)}
NaoListas == {O_tc, Str(<<"garbage">>)}

\* the texts in which a supplied file may hold the value v: as json.dump writes
\* it, without white space, with a comma before the last bracket, with a comma
\* and white space before it, with a comma before every closing bracket, with
\* two commas before the last bracket, and cut short of its last character
Textos(v) ==
    { JsonDumps(v),
      Compacto(v),
      AntesDoUltimo(Compacto(v), <<",">>),
      AntesDoUltimo(JsonDumps(v), <<",", " ">>),
      ComVirgulas(Compacto(v)),
      AntesDoUltimo(Compacto(v), <<",", ",">>),
      SubSeq(Compacto(v), 1, Len(Compacto(v)) - 1) }

ExternosF1 ==
    {Arquivo(<<ByteInvalido>>)}
      \cup {Arquivo(t) : t \in UNION {Textos(v) : v \in ListasExternas \cup NaoListas}}
ExternosF2 ==
    { Ausente,
      Arquivo(Compacto(Lista(<<O_tc>>))),
      Arquivo(AntesDoUltimo(Compacto(Lista(<<O_vazio>>)), <<",">>)),
      Arquivo(<<"[", "{">>),
      Arquivo(Compacto(O_tc)),
      Arquivo(Compacto(Lista(<<O_tc, Str(<<"garbage">>), O_tc>>))) }

InitValidador ==
    /\ \E c1 \in ExternosF1, c2 \in ExternosF2 :
          arquivos = [n \in Nomes |-> IF n = F1 THEN c1 ELSE IF n = F2 THEN c2
                                                        ELSE OutroArquivo]
    /\ antes = arquivos
    /\ op = "inicio"
    /\ lote = <<>>
    /\ escritas = SemFalhas
    /\ levantou = FALSE
    /\ tratadas = <<>>
    /\ log = <<>>
    /\ uuids = 0
    /\ agrupadas = <<>>
    /\ cli = SemCli
    /\ coleta = SemColeta
    /\ procs = SemProcs
    /\ sombra = SemSombra

\* os.listdir(diretorio): the names of the files, in any order
Listagens == {l \in SeqAte(Nomes, 0, Cardinality(Nomes)) :
                 /\ \A i, j \in DOMAIN l : i # j => l[i] # l[j]
                 /\ Range(l) = {n \in Nomes : arquivos[n].existe}}

\* the directory after a percorrer_jsons that gave r
Percorreu(r) ==
    /\ antes' = arquivos
    /\ arquivos' = r.arqs
    /\ op' = "validar"
    /\ lote' = <<>>
    /\ escritas' = SemFalhas
    /\ levantou' = FALSE
    /\ tratadas' = <<>>
    /\ log' = r.log
    /\ uuids' = r.u
    /\ agrupadas' = <<>>
    /\ UNCHANGED <<coleta, procs>>

\* the state after a percorrer_jsons that gave r
Validou(r) == Percorreu(r) /\ UNCHANGED cli

\* valida_json.py, main: the directory is walked
ValidarJsons ==
    /\ \E lista \in Listagens : Validou(percorrer_jsons(lista, arquivos, uuids))
    /\ UNCHANGED sombra

NextValidador == ValidarJsons

SpecValidador == InitValidador /\ [][NextValidador]_vars

-----------------------------------------------------------------------------
(* valida_json.py run as a script *)

\* what sys.argv holds after the name of the script: nothing, or a directory
Argumentos == {Nenhum, DIR_NEWS, OutroDiretorio}

\* the script has not run; each of the two directories exists or not, and
\* DIR_NEWS, when it exists, holds files
InitCli ==
    /\ \E existem \in SUBSET {DIR_NEWS, OutroDiretorio} :
          /\ cli = [SemCli EXCEPT !.existem = existem]
          /\ IF DIR_NEWS \in existem
             THEN \E c1 \in ExistentesF1, c2 \in ExternosF2 :
                     arquivos = [n \in Nomes |-> IF n = F1 THEN c1 ELSE IF n = F2 THEN c2
                                                                   ELSE OutroArquivo]
             ELSE arquivos = [n \in Nomes |-> Ausente]
    /\ antes = arquivos
    /\ op = "inicio"
    /\ lote = <<>>
    /\ escritas = SemFalhas
    /\ levantou = FALSE
    /\ tratadas = <<>>
    /\ log = <<>>
    /\ uuids = 0
    /\ agrupadas = <<>>
    /\ coleta = SemColeta
    /\ procs = SemProcs
    /\ sombra = SemSombra

\* lines 121-127 when DIR_NEWS exists: percorrer_jsons(DIR_NEWS) gave r, main
\* returns and the process ends with status 0.  sys.argv is not read
MainPercorreu(argv, r) ==
    /\ Percorreu(r)
    /\ cli' = [cli EXCEPT !.argv = argv, !.percorrido = DIR_NEWS, !.status = 0]
    /\ UNCHANGED sombra

\* lines 105-107 and 121-127 when DIR_NEWS does not exist: percorrer_jsons
\* prints and returns, main returns and the process ends with status 0
MainNaoEncontrou(argv) ==
    /\ cli' = [cli EXCEPT !.argv = argv, !.percorrido = Nenhum, !.status = 0]
    /\ op' = "validar"
    /\ antes' = arquivos
    /\ log' = <<>>
    /\ UNCHANGED <<arquivos, lote, escritas, levantou, tratadas, uuids, agrupadas, coleta,
                   procs, sombra>>

\* python src/valida_json.py [argv]
ValidaMain ==
    \E argv \in Argumentos :
        \/ /\ DIR_NEWS \in cli.existem
           /\ \E lista \in Listagens : MainPercorreu(argv, percorrer_jsons(lista, arquivos, uuids))
        \/ /\ DIR_NEWS \notin cli.existem
           /\ MainNaoEncontrou(argv)

NextCli == ValidaMain

SpecCli == InitCli /\ [][NextCli]_vars

-----------------------------------------------------------------------------
(* busca_noticias.py: the feeds and the collection *)

\* a piece of markup in a text: one element of the sequence
Tags == {"<b>", "</b>"}

\* the text nodes of a text, from position i, with the node being read
RECURSIVE NosDeTexto(_, _, _)
NosDeTexto(texto, i, no) ==
    IF i > Len(texto) THEN <<no>>
    ELSE IF texto[i] \in Tags THEN <<no>> \o NosDeTexto(texto, i + 1, <<>>)
    ELSE NosDeTexto(texto, i + 1, Append(no, texto[i]))

\* " ".join of the nodes
RECURSIVE JuntarNos(_)
JuntarNos(nos) ==
    IF nos = <<>> THEN <<>>
    ELSE IF Len(nos) = 1 THEN nos[1]
    ELSE nos[1] \o <<" ">> \o JuntarNos(Tail(nos))

NaoVazio(no) == no # <<>>

\* lines 30-33: BeautifulSoup(texto).get_text(separator=" ", strip=True) strips
\* every text node, drops the empty ones and joins the others with a blank
limpar_texto(texto) ==
    IF texto = <<>> THEN <<>>
    ELSE JuntarNos(SelectSeq([k \in DOMAIN NosDeTexto(texto, 1, <<>>) |->
                                 Strip(NosDeTexto(texto, 1, <<>>)[k])], NaoVazio))

\* carregar_feeds raised, or returned feeds
FeedsInvalidos == [ok |-> FALSE, feeds |-> <<>>]
\* line 61 without the test of the length
FeedsSemExigirItens(v) ==
    IF ~EhLista(v) THEN FeedsInvalidos ELSE [ok |-> TRUE, feeds |-> v.e]

\* line 61
FeedsLidos(v) ==
    IF ~EhLista(v) \/ v.e = <<>> THEN FeedsInvalidos ELSE [ok |-> TRUE, feeds |-> v.e]

\* lines 61-64, on what json.load gave
FeedsDe(r) == IF ~r.ok THEN FeedsInvalidos ELSE FeedsLidos(r.v)

\* lines 49-64: the file is missing, is empty, cannot be decoded or parsed, or
\* holds no list or an empty one: carregar_feeds raises
carregar_feeds(c) ==
    IF ~c.existe \/ c.txt = <<>> \/ ~Legivel(c.txt) THEN FeedsInvalidos
    ELSE FeedsDe(JsonLoads(c.txt))

\* what feedparser.parse does with a url: it raises, or gives a feed with its
\* bozo flag and its entries
Levanta == [levanta |-> TRUE, bozo |-> FALSE, entries |-> <<>>]
Feed(bozo, entries) == [levanta |-> FALSE, bozo |-> bozo, entries |-> entries]

\* an entry of a feed: the uuid4 the program draws for it, its title (absent when
\* ausente) and summary, the day of its published_parsed; an entry whose
\* published_parsed is no time tuple makes datetime(...) raise
Item(id, title, summary, dia) ==
    [id |-> id, ausente |-> FALSE, title |-> title, summary |-> summary, dia |-> dia, ruim |-> FALSE]
SemTitulo == <<"Sem título">>
FonteDesconhecida == Str(<<"Fonte desconhecida">>)

\* lines 101-123: the record of an entry
NoticiaDoItem(item, fonte) ==
    Dict(<< <<K_id, Str(<<item.id>>)>>,
            <<K_titulo, Str(limpar_texto(IF item.ausente THEN SemTitulo ELSE item.title))>>,
            <<K_conteudo, Str(limpar_texto(<<item.summary>>))>>, <<K_fonte, fonte>>,
            <<K_data, Str(<<item.dia>>)>>, <<K_url, Str(<<"http://n">>)>> >>)

\* lines 99-126: the entries one after the other; the one that raises is skipped
RECURSIVE NoticiasDosItens(_, _, _)
NoticiasDosItens(entries, i, fonte) ==
    IF i > Len(entries) THEN <<>>
    ELSE (IF entries[i].ruim THEN <<>> ELSE <<NoticiaDoItem(entries[i], fonte)>>)
            \o NoticiasDosItens(entries, i + 1, fonte)

\* what coletar_noticias gives: whether it raised, the records, the urls fetched
Coletado(levanta, noticias, buscados) ==
    [levanta |-> levanta, noticias |-> noticias, buscados |-> buscados]

\* lines 94-128 without the test of bozo
SemOlharBozo(feed, fonte, url_feed) ==
    Coletado(FALSE, NoticiasDosItens(feed.entries, 1, fonte), <<url_feed>>)

\* lines 87-128, feed being what feedparser.parse did
ColetadoDoFeed(feed, fonte, url_feed) ==
    IF feed.levanta \/ feed.bozo THEN Coletado(FALSE, <<>>, <<url_feed>>)
    ELSE Coletado(FALSE, NoticiasDosItens(feed.entries, 1, fonte), <<url_feed>>)

\* lines 80-84, url_feed being the stripped url
ColetadoDaUrl(fonte, url_feed, rede) ==
    IF url_feed = <<>> THEN Coletado(FALSE, <<>>, <<>>)
    ELSE ColetadoDoFeed(rede[url_feed], fonte, url_feed)

\* lines 76-128.  feed_info.get raises AttributeError when feed_info is no dict,
\* and .strip() does when the url is no str
coletar_noticias(feed_info, rede) ==
    IF ~EhDict(feed_info) \/ ~EhStr(Get(feed_info, K_url, Str(<<>>)))
    THEN Coletado(TRUE, <<>>, <<>>)
    ELSE ColetadoDaUrl(Get(feed_info, K_fonte, FonteDesconhecida),
                       Strip(Get(feed_info, K_url, Str(<<>>)).s), rede)

\* lines 222-227: the feeds from the i-th on; an exception ends the loop
RECURSIVE ColetarDe(_, _, _)
ColetarApos(feeds, i, rede, c) ==
    IF c.levanta THEN c
    ELSE Coletado(ColetarDe(feeds, i + 1, rede).levanta,
                  c.noticias \o ColetarDe(feeds, i + 1, rede).noticias,
                  c.buscados \o ColetarDe(feeds, i + 1, rede).buscados)
ColetarDe(feeds, i, rede) ==
    IF i > Len(feeds) THEN Coletado(FALSE, <<>>, <<>>)
    ELSE ColetarApos(feeds, i, rede, coletar_noticias(feeds[i], rede))

\* the urls of the feeds and what the network may answer
U1 == <<"u1">>
U2 == <<"u2">>
Urls == {U1, U2}
IA1 == Item("id-1", <<"<b>", "a", "</b>">>, "c1", D1)
IA2 == Item("id-2", <<" ", "A">>, "c2", D1)
IB == Item("id-3", <<"b">>, "c1", D1)
IC == Item("id-4", <<"a">>, "c1", D2)
IRuim == [IB EXCEPT !.ruim = TRUE]
ISemTitulo == [IB EXCEPT !.ausente = TRUE]
Respostas == {Levanta, Feed(TRUE, <<IA1>>), Feed(FALSE, <<>>), Feed(FALSE, <<IA1, IC, IB>>),
              Feed(FALSE, <<IRuim, IA2>>), Feed(FALSE, <<ISemTitulo>>)}
Redes == [Urls -> Respostas]

\* the descriptors of rss_feeds.json
FX1 == Dict(<< <<K_fonte, Str(<<"x">>)>>, <<K_url, Str(U1)>> >>)
FX2 == Dict(<< <<K_fonte, Str(<<"x", " ">>)>>, <<K_url, Str(<<" ">> \o U2)>> >>)
FSemFonte == Dict(<< <<K_url, Str(U2)>> >>)
FSemUrl == Dict(<< <<K_fonte, Str(<<"x">>)>> >>)
FUrlVazia == Dict(<< <<K_fonte, Str(<<"x">>)>>, <<K_url, Str(<<>>)>> >>)
FUrlBrancos == Dict(<< <<K_fonte, Str(<<"x">>)>>, <<K_url, Str(<<" ">>)>> >>)
FUrlNula == Dict(<< <<K_fonte, Str(<<"x">>)>>, <<K_url, Nulo>> >>)

\* rss_feeds.json: missing, empty, blank, cut, undecodable, no list, an empty
\* list, or a list of descriptors
FeedsComErro ==
    {Ausente, Arquivo(<<>>), Arquivo(<<" ">>), Arquivo(<<"[", "{">>), Arquivo(<<ByteInvalido>>),
     Arquivo(Compacto(FX1)), Arquivo(<<"[", " ", "]">>)}
ListasDeFeeds ==
    {<<FX1>>, <<FX1, FX2>>, <<FSemUrl, FX1>>, <<FX1, FUrlVazia, FSemFonte>>,
     <<FUrlBrancos, FX2>>, <<FX1, FUrlNula>>, <<Str(U1), FX1>>}
ArquivosDeFeeds == FeedsComErro \cup {Arquivo(Compacto(Lista(l))) : l \in ListasDeFeeds}

\* the storage directory is empty or holds one partition, and rss_feeds.json is
\* any of the files above
InitColeta ==
    /\ \E c1 \in {Ausente, Arquivo(JsonDumps(Lista(<<NA1>>)))} :
          arquivos = [n \in Nomes |-> IF n = F1 THEN c1 ELSE IF n = F2 THEN Ausente
                                                        ELSE OutroArquivo]
    /\ \E f \in ArquivosDeFeeds : coleta = [SemColeta EXCEPT !.arquivo = f]
    /\ antes = arquivos
    /\ op = "inicio"
    /\ lote = <<>>
    /\ escritas = SemFalhas
    /\ levantou = FALSE
    /\ tratadas = <<>>
    /\ log = <<>>
    /\ uuids = 0
    /\ agrupadas = <<>>
    /\ cli = SemCli
    /\ procs = SemProcs
    /\ sombra = SemSombra

\* etapa_coleta returned or raised before line 233: nothing was written
NadaSalvo(levanta) ==
    /\ op' = "coletar"
    /\ antes' = arquivos
    /\ lote' = <<>>
    /\ escritas' = SemFalhas
    /\ levantou' = levanta
    /\ tratadas' = <<>>
    /\ log' = <<>>
    /\ agrupadas' = <<>>
    /\ UNCHANGED <<arquivos, uuids, cli, procs, sombra>>

\* lines 221-234, c being what the loop over the feeds gave
Coletou(rede, c) ==
    /\ coleta' = [coleta EXCEPT !.rede = rede, !.buscados = c.buscados, !.erro = FALSE]
    /\ IF c.levanta \/ c.noticias = <<>> THEN NadaSalvo(c.levanta)
       ELSE /\ op' = "coletar"
            /\ Agrupado(c.noticias)
            /\ UNCHANGED sombra

\* lines 215-234, f being what carregar_feeds did
Carregou(rede, f) ==
    IF ~f.ok
    THEN /\ coleta' = [coleta EXCEPT !.rede = rede, !.buscados = <<>>, !.erro = TRUE]
         /\ NadaSalvo(FALSE)
    ELSE Coletou(rede, ColetarDe(f.feeds, 1, rede))

\* etapa_coleta(FEEDS, DIR_NEWS), the network answering as rede
ColetaDe(rede) == Carregou(rede, carregar_feeds(coleta.arquivo))

\* one run of busca_noticias.py
EtapaColeta ==
    /\ op = "inicio"
    /\ \E rede \in Redes : ColetaDe(rede)

NextColeta == EtapaColeta

SpecColeta == InitColeta /\ [][NextColeta]_vars

-----------------------------------------------------------------------------
(* busca_noticias.py: two invocations of salvar_noticias at the same time *)

Procs == {1, 2}
Outro(p) == 3 - p

\* a third record of date D1, of another natural key
ND == Noticia("id-5", <<"b", "b">>, "c1", <<"x">>, D1)

\* the batches of the two invocations: records of D1
LotesD1 == SeqAte({NA1, NA2, NB, ND}, 1, MaxLote)

\* a read that finds nothing, whatever the file holds
LidasVazias(c) == <<>>

\* lines 163-175: what an invocation reads from the partition file
Lidas(c) == NoticiasExistentes(c)

\* each invocation was given its batch and is about to read the file of D1, which
\* is absent or holds records
InitConcorrente ==
    /\ \E c1 \in {Ausente, Arquivo(JsonDumps(Lista(<<NA1>>))), Arquivo(JsonDumps(Lista(<<NB, ND>>)))} :
          arquivos = [n \in Nomes |-> IF n = F1 THEN c1 ELSE Ausente]
    /\ \E n1, n2 \in LotesD1 :
          procs = [pc |-> <<"ler", "ler">>, noticias |-> <<n1, n2>>,
                   lidas |-> << <<>>, <<>> >>, admitidas |-> << <<>>, <<>> >>,
                   sobrepostas |-> FALSE]
    /\ antes = arquivos
    /\ op = "inicio"
    /\ lote = <<>>
    /\ escritas = SemFalhas
    /\ levantou = FALSE
    /\ tratadas = <<>>
    /\ log = <<>>
    /\ uuids = 0
    /\ agrupadas = <<>>
    /\ cli = SemCli
    /\ coleta = SemColeta
    /\ sombra = SemSombra

\* lines 163-175 of invocation p: the file is read.  No lock is taken: the other
\* invocation may be between its read and its write
LerParticao(p) ==
    /\ procs.pc[p] = "ler"
    /\ procs' = [procs EXCEPT !.pc[p] = "escrever",
                              !.lidas[p] = Lidas(arquivos[F1]),
                              !.sobrepostas = @ \/ procs.pc[Outro(p)] = "escrever"]
    /\ op' = "ler"
    /\ UNCHANGED <<arquivos, antes, lote, escritas, levantou, tratadas, log, uuids,
                   agrupadas, cli, coleta, sombra>>

\* lines 178-203 of invocation p: the keys of the list it read, the records it
\* admits, and the write of the whole file
EscreverParticao(p) ==
    /\ procs.pc[p] = "escrever"
    /\ procs' = [procs EXCEPT !.pc[p] = "fim",
                              !.admitidas[p] =
                                  NovasSemDuplicatas(procs.noticias[p], 1,
                                                     ChavesExistentes(procs.lidas[p]), {})]
    /\ arquivos' = [arquivos EXCEPT
                       ![F1] = Combinar(arquivos[F1], procs.lidas[p], procs.noticias[p], "ok").arquivo]
    /\ antes' = arquivos
    /\ op' = "escrever"
    /\ UNCHANGED <<lote, escritas, levantou, tratadas, log, uuids, agrupadas, cli, coleta,
                   sombra>>

NextConcorrente == \E p \in Procs : LerParticao(p) \/ EscreverParticao(p)

SpecConcorrente == InitConcorrente /\ [][NextConcorrente]_vars

-----------------------------------------------------------------------------
(* main.py: runs of busca_noticias.py and of valida_json.py, one at a time *)

\* the storage directory is empty
InitMisto ==
    /\ arquivos = [n \in Nomes |-> Ausente]
    /\ sombra = [arqs |-> arquivos, anterior |-> "inicio"]
    /\ antes = arquivos
    /\ op = "inicio"
    /\ lote = <<>>
    /\ escritas = SemFalhas
    /\ levantou = FALSE
    /\ tratadas = <<>>
    /\ log = <<>>
    /\ uuids = 0
    /\ agrupadas = <<>>
    /\ cli = SemCli
    /\ coleta = SemColeta
    /\ procs = SemProcs

\* a collection that gathered todas_noticias, in the directory and in the
\* directory that no validation touches
ColetouMisto(todas_noticias, noticias_agrupadas) ==
    /\ Salvou(todas_noticias, SemFalhas, noticias_agrupadas,
              salvar_noticias(noticias_agrupadas, arquivos, SemFalhas))
    /\ sombra' = [arqs |-> salvar_noticias(noticias_agrupadas, sombra.arqs, SemFalhas).arqs,
                  anterior |-> op]

\* main.py, line 17: python src/busca_noticias.py
ColetaMista ==
    \E todas_noticias \in Lotes :
        ColetouMisto(todas_noticias, agrupar_noticias_por_data(todas_noticias))

\* main.py, line 18: python src/valida_json.py
ValidacaoMista ==
    /\ \E lista \in Listagens : Validou(percorrer_jsons(lista, arquivos, uuids))
    /\ sombra' = [sombra EXCEPT !.anterior = op]

NextMisto == ColetaMista \/ ValidacaoMista

SpecMisto == InitMisto /\ [][NextMisto]_vars

-----------------------------------------------------------------------------
(* What the claims speak of *)

\* the record list of a file: the list a reader of the partition finds in it
Registros(c) == NoticiasExistentes(c)

\* a well-formed record: an object whose titulo and fonte, when present, are
\* strings and whose data is a scalar
EhRegistro(n) ==
    /\ EhDict(n)
    /\ EhStr(Get(n, K_titulo, Str(<<>>)))
    /\ EhStr(Get(n, K_fonte, Str(<<>>)))
    /\ Get(n, K_data, Str(<<>>)).t \in {"str", "num", "null"}

\* the natural key as the specification states it: titulo trimmed and
\* lowercased, fonte trimmed, data exact
ChaveDeclarada(n) ==
    <<Lower(Strip(Get(n, K_titulo, Str(<<>>)).s)),
      Strip(Get(n, K_fonte, Str(<<>>)).s),
      Get(n, K_data, Str(<<>>))>>

\* no two well-formed records of the list share a natural key
SemDuplicatas(l) ==
    \A i, j \in DOMAIN l :
        (i < j /\ EhRegistro(l[i]) /\ EhRegistro(l[j]))
            => ChaveDeclarada(l[i]) # ChaveDeclarada(l[j])

\* the records of l with the natural key k
ComChave(l, k) == {i \in DOMAIN l : EhRegistro(l[i]) /\ ChaveDeclarada(l[i]) = k}

\* the file of the partition a record of the batch belongs to
ParticaoDe(n) == Get(n, K_data, Nulo).s \o <<".json">>

\* the elements of l at the positions in P, in the order of l
RECURSIVE NasPosicoes(_, _, _)
NasPosicoes(l, i, P) ==
    IF i > Len(l) THEN <<>>
    ELSE (IF i \in P THEN <<l[i]>> ELSE <<>>) \o NasPosicoes(l, i + 1, P)

\* the positions of the batch whose record goes to file n
DoArquivo(n) == {i \in DOMAIN lote : ParticaoDe(lote[i]) = n}

\* the positions of the batch whose record is the first of its natural key
\* among those that go to file n
PrimeirasDoLote(n) ==
    {i \in DoArquivo(n) :
        \A j \in DoArquivo(n) : j < i => ChaveDeclarada(lote[j]) # ChaveDeclarada(lote[i])}

\* the positions of the batch that the last execution had to admit to file n:
\* the first of their key, the key being in no record the file held
NovasDoLote(n) ==
    {i \in PrimeirasDoLote(n) : ComChave(Registros(antes[n]), ChaveDeclarada(lote[i])) = {}}

\* the partition files of the batch, in the order in which their dates first
\* arrive
RECURSIVE OrdemDe(_, _)
OrdemDe(i, vistos) ==
    IF i > Len(lote) THEN <<>>
    ELSE IF ParticaoDe(lote[i]) \in vistos THEN OrdemDe(i + 1, vistos)
    ELSE <<ParticaoDe(lote[i])>> \o OrdemDe(i + 1, vistos \cup {ParticaoDe(lote[i])})
OrdemDoLote == OrdemDe(1, {})

\* the last execution reached the turn of file n: every partition before it
\* ran to its end
Alcancada(n) ==
    \E i \in DOMAIN OrdemDoLote : OrdemDoLote[i] = n /\ i <= Len(tratadas) + 1

\* a file that exists but cannot be read, cannot be parsed, or holds no list
Corrompido(c) ==
    /\ c.existe
    /\ \/ ~Legivel(c.txt)
       \/ ~JsonLoads(c.txt).ok
       \/ ~EhLista(JsonLoads(c.txt).v)

\* a file that is absent or holds a parseable list of well-formed records
BemFormado(c) ==
    \/ ~c.existe
    \/ /\ Legivel(c.txt)
       /\ JsonLoads(c.txt).ok
       /\ EhLista(JsonLoads(c.txt).v)
       /\ \A x \in Range(JsonLoads(c.txt).v.e) : EhRegistro(x)

-----------------------------------------------------------------------------
(* The claims about salvar_noticias *)

\* C1: running salvar_noticias again with the batch of the execution before,
\* the writes of both succeeding, leaves every partition file that was absent or
\* a list of well-formed records before the first of the two exactly as the
\* first left it: the second execution admits no record
C1_Idempotencia ==
    [][(op = "salvar" /\ op' = "salvar" /\ lote' = lote)
          => \A n \in Nomes :
                (BemFormado(antes[n]) /\ escritas[n] = "ok" /\ escritas'[n] = "ok")
                    => /\ Registros(arquivos'[n]) = Registros(arquivos[n])
                       /\ arquivos'[n] = arquivos[n]]_vars

\* a second execution with the batch <<NA1, NB>> found the file with the two
\* records the first had admitted, and left it so
C1_Witness ==
    /\ op = "salvar"
    /\ lote = <<NA1, NB>>
    /\ Registros(antes[F1]) = <<NA1, NB>>
    /\ Registros(arquivos[F1]) = <<NA1, NB>>

\* C2: an execution of salvar_noticias never puts a second record of a natural
\* key into a file that held none, so that from an empty directory no file ever
\* holds two; of the records of one batch that share a key and are new, the
\* file written takes exactly one, the first to arrive
C2_UmaCopiaPorChave ==
    op = "salvar" =>
        \A n \in Nomes :
            SemDuplicatas(Registros(antes[n]))
                => /\ SemDuplicatas(Registros(arquivos[n]))
                   /\ (n \in Range(tratadas) /\ escritas[n] = "ok")
                        => \A i \in NovasDoLote(n) :
                              \E p \in DOMAIN Registros(arquivos[n]) :
                                 /\ ComChave(Registros(arquivos[n]), ChaveDeclarada(lote[i])) = {p}
                                 /\ Registros(arquivos[n])[p] = lote[i]

\* two records of one batch that differ in case and white space only: the
\* first is stored, the second is not
C2_Witness ==
    /\ op = "salvar"
    /\ lote = <<NA1, NA2>>
    /\ ~antes[F1].existe
    /\ Registros(arquivos[F1]) = <<NA1>>

\* C3: when the file holds one record of natural key K and the batch brings a
\* different record of the same key, the file holds after the execution, its
\* write succeeding, exactly one record of key K, the one it held
C3_PrimeiroVisto ==
    op = "salvar" =>
        \A n \in Nomes :
            \A p \in DOMAIN Registros(antes[n]) :
                \A i \in DoArquivo(n) :
                    (/\ EhRegistro(Registros(antes[n])[p])
                     /\ ComChave(Registros(antes[n]), ChaveDeclarada(lote[i])) = {p}
                     /\ lote[i] # Registros(antes[n])[p]
                     /\ escritas[n] = "ok")
                        => \E q \in DOMAIN Registros(arquivos[n]) :
                              /\ ComChave(Registros(arquivos[n]), ChaveDeclarada(lote[i])) = {q}
                              /\ Registros(arquivos[n])[q] = Registros(antes[n])[p]

\* the file held NA2, the batch brought NA1 (same key, other id, conteudo and
\* titulo text), and the file was written with NB added and NA2 kept
C3_Witness ==
    /\ op = "salvar"
    /\ lote = <<NA1, NB>>
    /\ Registros(antes[F1]) = <<NA2>>
    /\ Registros(arquivos[F1]) = <<NA2, NB>>
    /\ F1 \in Range(tratadas)

\* l is the beginning of m
Prefixo(l, m) == Len(l) <= Len(m) /\ \A i \in DOMAIN l : m[i] = l[i]

\* C4: an execution never deletes, modifies or reorders a record a file held:
\* the list the file held is the beginning of the list it holds; the list of a
\* partition file that was handled and written is the list it held followed by
\* the records admitted, in arrival order; a file that was not handled is as
\* it was
C4_SoAcrescenta ==
    op = "salvar" =>
        \A n \in Nomes :
            /\ Prefixo(Registros(antes[n]), Registros(arquivos[n]))
            /\ (n \in Range(tratadas) /\ escritas[n] = "ok")
                  => Registros(arquivos[n])
                       = Registros(antes[n]) \o NasPosicoes(lote, 1, NovasDoLote(n))
            /\ n \notin Range(tratadas) => arquivos[n] = antes[n]

\* C5: a failure while one partition is handled never aborts the execution:
\* no exception leaves salvar_noticias, and every partition of the batch whose
\* own file is absent or a list of well-formed records, and whose own write
\* succeeds, is merged and written whatever happens to the others, so that its
\* file holds a record of the natural key of each record of the batch for it
C5_IsolamentoParticoes ==
    op = "salvar" =>
        \A i \in DOMAIN lote :
            (BemFormado(antes[ParticaoDe(lote[i])]) /\ escritas[ParticaoDe(lote[i])] = "ok")
                => /\ ~levantou
                   /\ ParticaoDe(lote[i]) \in Range(tratadas)
                   /\ ComChave(Registros(arquivos[ParticaoDe(lote[i])]),
                               ChaveDeclarada(lote[i])) # {}

\* C6: a file that exists but cannot be read or parsed, or holds no list, does
\* not make the execution fail when its turn comes: the turn runs to its end
\* and the file, its write succeeding, then holds the records of the batch for
\* it, the first of each natural key, in arrival order, and nothing else
C6_CorrompidoVazio ==
    op = "salvar" =>
        \A n \in Nomes :
            (Corrompido(antes[n]) /\ Alcancada(n) /\ escritas[n] = "ok")
                => /\ n \in Range(tratadas)
                   /\ Legivel(arquivos[n].txt)
                   /\ JsonLoads(arquivos[n].txt).ok
                   /\ JsonLoads(arquivos[n].txt).v
                        = Lista(NasPosicoes(lote, 1, PrimeirasDoLote(n)))

\* the file held [NB,] which is no JSON; the batch brought NA1 and NA2: the
\* file holds NA1 alone
C6_Witness ==
    /\ op = "salvar"
    /\ lote = <<NA1, NA2>>
    /\ antes[F1] = Arquivo(AntesDoUltimo(Compacto(Lista(<<NB>>)), <<",">>))
    /\ Registros(arquivos[F1]) = <<NA1>>

-----------------------------------------------------------------------------
(* The claims about the validation *)

\* the files percorrer_jsons takes
ArquivosJson == {n \in Nomes : Lower(n)[Len(n)] = ".json"}

\* what processar_arquivo loads from a text: the strict reading, or, that one
\* failing, the reading of the corrected text
Carga(txt) == CarregarOuCorrigir(txt, <<>>)

\* the objects of a list, in its order
Objetos(l) == SelectSeq(l, EhDict)

\* the file can be read and its text loads, at once or corrected, as a list
CarregaLista(c) ==
    /\ c.existe
    /\ Legivel(c.txt)
    /\ Carga(c.txt).ok
    /\ EhLista(Carga(c.txt).v)

\* the objects the validation finds in the file, and the list it leaves there
Entrada(n) == Objetos(Carga(antes[n].txt).v.e)
Saida(n) == JsonLoads(arquivos[n].txt).v.e

\* the file holds, after the validation, a list of as many elements as the
\* validation found objects
Regravada(n) ==
    /\ Legivel(arquivos[n].txt)
    /\ JsonLoads(arquivos[n].txt).ok
    /\ EhLista(JsonLoads(arquivos[n].txt).v)
    /\ Len(Saida(n)) = Len(Entrada(n))

\* the ids the objects of the directory held before the validation
IdsAntes ==
    UNION {{Get(x, K_id, Nulo) : x \in Range(Entrada(n))} :
              n \in {m \in ArquivosJson : CarregaLista(antes[m])}}

\* s is the object e with its required keys filled in
Preenchido(e, s) ==
    /\ EhDict(s)
    /\ \A k \in Range(CHAVES_OBRIGATORIAS) : Contem(s, k)
    /\ \A p \in DOMAIN e.m : Valor(s, e.m[p][1]) = e.m[p][2]
    /\ ~Contem(e, K_id)
          => /\ EhStr(Valor(s, K_id))
             /\ Valor(s, K_id).s # <<>>
             /\ Valor(s, K_id) \notin IdsAntes
    /\ \A k \in Range(CHAVES_OBRIGATORIAS) \ {K_id} :
          ~Contem(e, k) => Valor(s, k) = Str(<<>>)

\* C7: after the validation of a file whose text loads, at once or corrected,
\* as a list, every element of the list written is an object with the six
\* required keys; a key that was in the object keeps its value, a missing id
\* is a new identifier, not empty, that no object held and no other object
\* gets, and every other missing key is the empty string
C7_ChavesObrigatorias ==
    op = "validar" =>
        \A n \in ArquivosJson :
            CarregaLista(antes[n])
                => /\ Regravada(n)
                   /\ \A j \in DOMAIN Entrada(n) : Preenchido(Entrada(n)[j], Saida(n)[j])
                   /\ \A i, j \in DOMAIN Entrada(n) :
                         (i < j /\ ~Contem(Entrada(n)[i], K_id) /\ ~Contem(Entrada(n)[j], K_id))
                            => Valor(Saida(n)[i], K_id) # Valor(Saida(n)[j], K_id)

\* the file held [{"titulo":"T","conteudo":"C"}] and holds the object with an
\* id drawn and fonte, data and url empty
C7_Witness ==
    /\ op = "validar"
    /\ antes[F1] = Arquivo(Compacto(Lista(<<O_tc>>)))
    /\ \E u \in DOMAIN UUIDS :
          arquivos[F1] = Arquivo(JsonDumps(Lista(<<
              Dict(O_tc.m \o << <<K_id, Str(<<UUIDS[u]>>)>>, <<K_fonte, Str(<<>>)>>,
                                 <<K_data, Str(<<>>)>>, <<K_url, Str(<<>>)>> >>) >>)))

\* C8: the list written holds one element for each object of the list loaded,
\* in the same order, the element beginning with the members of its object as
\* they were; what is no object is left out, and no object is left out or
\* joined with another, be they equal
C8_SoObjetos ==
    op = "validar" =>
        \A n \in ArquivosJson :
            CarregaLista(antes[n])
                => /\ Regravada(n)
                   /\ \A j \in DOMAIN Entrada(n) :
                         /\ EhDict(Saida(n)[j])
                         /\ Len(Entrada(n)[j].m) <= Len(Saida(n)[j].m)
                         /\ SubSeq(Saida(n)[j].m, 1, Len(Entrada(n)[j].m)) = Entrada(n)[j].m

\* of an object, a string and the same object again, the two objects stay, and
\* of NA1 twice, both
C8_Witness ==
    /\ op = "validar"
    /\ antes[F2] = Arquivo(Compacto(Lista(<<O_tc, Str(<<"garbage">>), O_tc>>)))
    /\ Len(Saida(F2)) = 2
    /\ antes[F1] = Arquivo(Compacto(Lista(<<NA1, NA1>>)))
    /\ Saida(F1) = <<NA1, NA1>>

\* the lines of the log about file n that tell of evento
LinhasDe(n, evento) == {i \in DOMAIN log : log[i].arquivo = n /\ log[i].evento = evento}

\* the file can be read but its text does not load even when corrected, or
\* loads as a value that is no list
FalhaDura(c) ==
    /\ c.existe
    /\ Legivel(c.txt)
    /\ ~Carga(c.txt).ok \/ ~EhLista(Carga(c.txt).v)

\* the text is the list of objects with the required keys that it holds, as
\* json.dump writes it
Canonico(c) ==
    /\ c.existe
    /\ Legivel(c.txt)
    /\ JsonLoads(c.txt).ok
    /\ EhLista(JsonLoads(c.txt).v)
    /\ c.txt = JsonDumps(JsonLoads(c.txt).v)
    /\ \A x \in Range(JsonLoads(c.txt).v.e) :
          EhDict(x) /\ \A k \in Range(CHAVES_OBRIGATORIAS) : Contem(x, k)

\* the validation went through file m: it failed there and said so, or left
\* the file validated
Processado(m) ==
    IF ~Legivel(antes[m].txt) \/ FalhaDura(antes[m])
    THEN arquivos[m] = antes[m] /\ LinhasDe(m, "falha") # {}
    ELSE Canonico(arquivos[m])

VirgulaFinal(txt, i) ==
    /\ txt[i] = ","
    /\ \E j \in (i + 1)..Len(txt) :
          /\ txt[j] \in {"}", "]"}
          /\ \A k \in (i + 1)..(j - 1) : txt[k] = " "

\* the text without the commas, outside the strings, that come before a
\* closing bracket
SemVirgulasFinais(txt) ==
    Juntar([k \in DOMAIN txt |->
               IF VirgulaFinal(txt, k) /\ ~DentroDeString(txt, k) THEN <<>> ELSE <<txt[k]>>],
           1, Len(txt))

\* the text is a list that only the commas before closing brackets keep from
\* being JSON
SoVirgulasFinais(c) ==
    /\ c.existe
    /\ Legivel(c.txt)
    /\ ~JsonLoads(c.txt).ok
    /\ JsonLoads(SemVirgulasFinais(c.txt)).ok
    /\ EhLista(JsonLoads(SemVirgulasFinais(c.txt)).v)

\* C10: the correction comes only after the strict reading has failed, and one
\* reading follows it: a text that loads as it is brings no line of decoding
\* error nor of correction, and its objects are written with the members they
\* had; a text that does not brings one line of decoding error, followed by
\* one of correction or one of failure; and a list that only commas before
\* closing brackets keep from being JSON loads when corrected and is written
\* as a JSON list without such commas
C10_VirgulaFinal ==
    op = "validar" =>
        \A n \in ArquivosJson :
            (antes[n].existe /\ Legivel(antes[n].txt))
                => /\ JsonLoads(antes[n].txt).ok
                      => /\ LinhasDe(n, "decode") = {}
                         /\ LinhasDe(n, "corrigido") = {}
                         /\ EhLista(JsonLoads(antes[n].txt).v)
                               => /\ Regravada(n)
                                  /\ \A j \in DOMAIN Saida(n) :
                                        SubSeq(Saida(n)[j].m, 1,
                                               Len(Objetos(JsonLoads(antes[n].txt).v.e)[j].m))
                                          = Objetos(JsonLoads(antes[n].txt).v.e)[j].m
                   /\ ~JsonLoads(antes[n].txt).ok
                      => /\ Cardinality(LinhasDe(n, "decode")) = 1
                         /\ Cardinality(LinhasDe(n, "corrigido")) <= 1
                         /\ LinhasDe(n, "corrigido") = {}
                               => Cardinality(LinhasDe(n, "falha")) = 1
                   /\ SoVirgulasFinais(antes[n])
                      => /\ Cardinality(LinhasDe(n, "corrigido")) = 1
                         /\ LinhasDe(n, "falha") = {}
                         /\ arquivos[n] # antes[n]
                         /\ Canonico(arquivos[n])
                         /\ SemVirgulasFinais(arquivos[n].txt) = arquivos[n].txt

\* the file held [{"titulo":"T","conteudo":"C"}, ] and was corrected and
\* written as a list of one object
C10_Witness ==
    /\ op = "validar"
    /\ antes[F1] = Arquivo(AntesDoUltimo(JsonDumps(Lista(<<O_tc>>)), <<",", " ">>))
    /\ LinhasDe(F1, "corrigido") # {}
    /\ Canonico(arquivos[F1])
    /\ Len(Saida(F1)) = 1

-----------------------------------------------------------------------------
(* The claims about the grouping, the command line, the feeds and the runs *)

\* the value of data of a record, as agrupar_noticias_por_data reads it
DataDe(n) == Get(n, K_data, Nulo)

\* the records of the list l whose data is d, in the order of l
DaData(l, d) == NasPosicoes(l, 1, {i \in DOMAIN l : DataDe(l[i]) = d})

\* x is a record of the date of file n
DoDia(x, n) == EhDict(x) /\ EhStr(DataDe(x)) /\ ParticaoDe(x) = n

\* C11: agrupar_noticias_por_data gives one group for each data of the input,
\* the groups of different keys, each holding the records of its data, all of
\* them and no other, in the order of the input; and a collection leaves in a
\* partition file that held only records of its date only records of its
\* date, so that from an empty directory no file ever holds a record of
\* another date
C11_Agrupamento ==
    op = "salvar" =>
        /\ \A i, j \in DOMAIN agrupadas : i # j => agrupadas[i].data # agrupadas[j].data
        /\ \A k \in DOMAIN lote : \E i \in DOMAIN agrupadas : agrupadas[i].data = DataDe(lote[k])
        /\ \A i \in DOMAIN agrupadas :
              /\ agrupadas[i].noticias # <<>>
              /\ agrupadas[i].noticias = DaData(lote, agrupadas[i].data)
        /\ \A n \in Nomes :
              (\A x \in Range(Registros(antes[n])) : DoDia(x, n))
                 => \A x \in Range(Registros(arquivos[n])) : DoDia(x, n)

\* a batch of two dates, the records of the first date apart: two groups, the
\* first with NA1 and NB in that order, and two files, each with its date
C11_Witness ==
    /\ op = "salvar"
    /\ lote = <<NA1, NC, NB>>
    /\ agrupadas = <<[data |-> Str(<<D1>>), noticias |-> <<NA1, NB>>],
                     [data |-> Str(<<D2>>), noticias |-> <<NC>>]>>
    /\ ~antes[F1].existe /\ ~antes[F2].existe
    /\ Registros(arquivos[F1]) = <<NA1, NB>>
    /\ Registros(arquivos[F2]) = <<NC>>

\* C12: valida_json.py run as a script walks the directory it is given as
\* argument; when no directory is given, or the one given does not exist, the
\* process ends with a status that is not zero; and a run that ends with
\* status zero has walked the directory given
C12_LinhaDeComando ==
    op = "validar" =>
        /\ (cli.argv = Nenhum \/ cli.argv \notin cli.existem) => cli.status # 0
        /\ cli.status = 0 => (cli.argv # Nenhum /\ cli.percorrido = cli.argv)

\* what rss_feeds.json holds, read strictly
FeedsLidosDe(c) == JsonLoads(c.txt)

\* the feed list file is missing, empty, not valid JSON, not an array, or an
\* empty array
ErroNaLeitura(c, r) == c.txt = <<>> \/ ~Legivel(c.txt) \/ ~r.ok \/ ~EhLista(r.v) \/ r.v.e = <<>>
ErroDeConfiguracao(c) == ~c.existe \/ ErroNaLeitura(c, FeedsLidosDe(c))

\* C13: when the feed list file is missing, empty, not valid JSON, not an array
\* or an empty array, etapa_coleta prints the error, raises nothing, gives no url
\* to feedparser.parse and leaves every file of the storage directory as it was
C13_ErroDeConfiguracao ==
    (op = "coletar" /\ ErroDeConfiguracao(coleta.arquivo))
        => /\ coleta.erro
           /\ ~levantou
           /\ coleta.buscados = <<>>
           /\ arquivos = antes

\* rss_feeds.json held an empty array, the directory held a partition and the
\* network would have answered with entries: the phase ended with the error
C13_Witness ==
    /\ op = "coletar"
    /\ coleta.arquivo = Arquivo(<<"[", " ", "]">>)
    /\ coleta.erro
    /\ coleta.rede[U1] = Feed(FALSE, <<IA1, IC, IB>>)
    /\ arquivos[F1].existe
    /\ ~arquivos[F2].existe

\* a descriptor the program can read: an object whose url, when present, is a
\* string
DescritorLegivel(d) == EhDict(d) /\ EhStr(Get(d, K_url, Str(<<>>)))

\* the url of a descriptor, trimmed; the empty string when it has none
UrlDe(d) == Strip(Get(d, K_url, Str(<<>>)).s)

\* the feed of the descriptor has no url, or its fetch raised, or its parse
\* flagged the feed
FeedFalhou(d, rede) ==
    \/ UrlDe(d) = <<>>
    \/ rede[UrlDe(d)].levanta
    \/ rede[UrlDe(d)].bozo

\* the records of the feeds that did not fail, in the order of the list
RECURSIVE DosOutrosFeeds(_, _, _)
DosOutrosFeeds(feeds, i, rede) ==
    IF i > Len(feeds) THEN <<>>
    ELSE (IF FeedFalhou(feeds[i], rede) THEN <<>>
          ELSE NoticiasDosItens(rede[UrlDe(feeds[i])].entries, 1,
                                Get(feeds[i], K_fonte, FonteDesconhecida)))
            \o DosOutrosFeeds(feeds, i + 1, rede)

\* the urls of the feeds that have one, in the order of the list
RECURSIVE UrlsDosFeeds(_, _)
UrlsDosFeeds(feeds, i) ==
    IF i > Len(feeds) THEN <<>>
    ELSE (IF UrlDe(feeds[i]) = <<>> THEN <<>> ELSE <<UrlDe(feeds[i])>>) \o UrlsDosFeeds(feeds, i + 1)

\* what C14 says of a run over the descriptors feeds
FeedsIsolados(feeds) ==
    (\A d \in Range(feeds) : DescritorLegivel(d))
        => /\ ~levantou
           /\ ~coleta.erro
           /\ lote = DosOutrosFeeds(feeds, 1, coleta.rede)
           /\ coleta.buscados = UrlsDosFeeds(feeds, 1)
           /\ \A k \in DOMAIN lote :
                 ComChave(Registros(arquivos[ParticaoDe(lote[k])]), ChaveDeclarada(lote[k])) # {}

\* C14: a feed whose url is empty or missing, whose fetch raises or whose parse
\* flags the feed gives no record and raises nothing; every other feed of the
\* list is fetched, its records are collected, and each of them is in its
\* partition file after the run
C14_IsolamentoDeFeeds ==
    (op = "coletar" /\ ~ErroDeConfiguracao(coleta.arquivo))
        => FeedsIsolados(FeedsLidosDe(coleta.arquivo).v.e)

\* the fetch of the first feed raised, the second feed gave three entries of two
\* dates, and the two partition files were created with them
C14_Witness ==
    /\ op = "coletar"
    /\ coleta.arquivo = Arquivo(Compacto(Lista(<<FX1, FX2>>)))
    /\ coleta.rede[U1] = Levanta
    /\ coleta.rede[U2] = Feed(FALSE, <<IA1, IC, IB>>)
    /\ coleta.buscados = <<U1, U2>>
    /\ ~antes[F1].existe
    /\ Len(Registros(arquivos[F1])) = 2
    /\ Len(Registros(arquivos[F2])) = 1
    /\ Get(Registros(arquivos[F2])[1], K_titulo, Nulo) = Str(<<"a">>)

\* the two invocations have returned
Terminaram == \A p \in Procs : procs.pc[p] = "fim"

\* the batches of the two invocations share no natural key
ChavesDistintas ==
    \A i \in DOMAIN procs.noticias[1], j \in DOMAIN procs.noticias[2] :
        ChaveDeclarada(procs.noticias[1][i]) # ChaveDeclarada(procs.noticias[2][j])

\* a record that invocation p admitted and wrote is not in the file
Perdida(p) == \E x \in Range(procs.admitidas[p]) : x \notin Range(Registros(arquivos[F1]))

\* C15: two invocations of salvar_noticias on one date, their batches sharing
\* no natural key, of which neither read the file while the other was between
\* its read and its write, leave in the file every record that either admitted;
\* a record is lost only when the two overlapped
C15_SemPerdaEmSerie ==
    (procs.pc # <<>> /\ Terminaram /\ ChavesDistintas /\ ~procs.sobrepostas)
        => \A p \in Procs : ~Perdida(p)

\* both invocations read the absent file before either wrote; the first wrote
\* NA1, the second wrote NB over it, and NA1 is lost
C15_Witness ==
    /\ procs.pc = <<"fim", "fim">>
    /\ procs.noticias = << <<NA1>>, <<NB>> >>
    /\ procs.sobrepostas
    /\ procs.lidas = << <<>>, <<>> >>
    /\ procs.admitidas = << <<NA1>>, <<NB>> >>
    /\ Registros(arquivos[F1]) = <<NB>>
    /\ Perdida(1)

\* the correction was tried on the text and the reading that follows it gave r
Corrigiu(txt, r) == Legivel(txt) /\ ~JsonLoads(txt).ok /\ r.ok

\* C16: whenever the correction is tried on the text of a file and the reading
\* that follows succeeds, the value read is the value of the text without its
\* commas before closing brackets, the strings of the records being as they
\* were written
C16_SoVirgulasFinais ==
    op = "validar" =>
        \A n \in ArquivosJson :
            (antes[n].existe /\ Corrigiu(antes[n].txt, JsonLoads(tentar_corrigir_json(antes[n].txt))))
                => /\ JsonLoads(SemVirgulasFinais(antes[n].txt)).ok
                   /\ JsonLoads(tentar_corrigir_json(antes[n].txt)).v
                        = JsonLoads(SemVirgulasFinais(antes[n].txt)).v

\* C17: a validation that follows a validation changes no file, be it one the
\* first validated or one on which the first failed, and draws no identifier;
\* of a file the first validated it logs nothing: no id drawn, no field filled
\* in, no element dropped, no correction
C17_ValidadorIdempotente ==
    [][(op = "validar" /\ op' = "validar")
          => /\ arquivos' = arquivos
             /\ uuids' = uuids
             /\ \A n \in ArquivosJson :
                   (arquivos[n].existe /\ Legivel(arquivos[n].txt) /\ ~FalhaDura(arquivos[n]))
                       => \A i \in DOMAIN log' : log'[i].arquivo # n]_vars

\* a second validation: the first file holds the object with the id the first
\* validation drew and the fields it filled in, the second file is the one that
\* does not load, both are as the second validation found them, and the log of
\* the second tells of the failure only
C17_Witness ==
    /\ op = "validar"
    /\ antes = arquivos
    /\ uuids = 1
    /\ arquivos[F1] = Arquivo(JsonDumps(Lista(<<
           Dict(O_tc.m \o << <<K_id, Str(<<UUIDS[1]>>)>>, <<K_fonte, Str(<<>>)>>,
                              <<K_data, Str(<<>>)>>, <<K_url, Str(<<>>)>> >>) >>)))
    /\ arquivos[F2] = Arquivo(<<"[", "{">>)
    /\ LinhasDe(F1, "uuid") = {}
    /\ LinhasDe(F2, "falha") # {}

\* C18: in every sequence of collections and validations from the empty
\* directory, a validation leaves every file, and so every record and natural
\* key, as it found it; each file is as the collections alone would have left
\* it; and no file holds two records of one natural key, whatever was collected
\* again after a validation
C18_ValidacaoNaoPerturba ==
    /\ op = "validar" => /\ arquivos = antes
                         /\ \A n \in Nomes : Registros(arquivos[n]) = Registros(antes[n])
    /\ arquivos = sombra.arqs
    /\ \A n \in Nomes : SemDuplicatas(Registros(arquivos[n]))

\* the file held NA1, a validation ran, and the collection that followed brought
\* NA2, of the key of NA1, and NB: NB alone was added
C18_Witness ==
    /\ op = "salvar"
    /\ sombra.anterior = "validar"
    /\ lote = <<NA2, NB>>
    /\ Registros(antes[F1]) = <<NA1>>
    /\ Registros(arquivos[F1]) = <<NA1, NB>>
    /\ arquivos = sombra.arqs

====
